---- MODULE Spec2Model ----
(***************************************************************************)
(* Model of the org-graph application: the OrgTree component (local React  *)
(* state, drag-and-drop reparenting, optimistic update and PATCH           *)
(* persistence, layout effect), the mirage mock server (remote store) and  *)
(* calculateOrgChartLayout (subgraph extraction in front of ELK).          *)
(*                                                                         *)
(* Encoding.  Employee ids are the positive integers 1..NumEmp (the seeds  *)
(* use '1', '2', ...).  A falsy managerId (null or '') is NoMgr = 0.  The  *)
(* droppable id `drop-<id>` is the integer DropBase + id, so that          *)
(* stripping the prefix is a real conversion.  Strings that are searched   *)
(* (name, designation, team) are sequences of characters.                  *)
(***************************************************************************)
EXTENDS Integers, Sequences, FiniteSets, TLC

\* ------------------------------------------------------------------ bounds
NumEmp == 3            \* employees created by the mock server
MaxGestures == 2       \* user gestures per run: drags and filter changes
MaxExtraIds == 1       \* ids beyond the collection used as dangling managerIds
MaxStack == 5          \* activations the call stack holds (more than NumEmp)
MaxRequests == 2       \* requests the PATCH route receives in one run

\* --------------------------------------------------------------- constants
NoMgr == 0             \* managerId: null (falsy)
NoId == 0              \* activeId / overNodeId: null
DropBase == 100        \* the `drop-` prefix of a droppable id

Ids == 1 .. NumEmp

\* ------------------------------------------------------------ seed records
\* Attribute values of the seeded employees, abbreviated to their first
\* letters; ids past the tenth seed repeat the last pattern.
SeedName(i) ==
  CASE i = 1 -> <<"M", "a">>
    [] i = 2 -> <<"J", "o">>
    [] i = 3 -> <<"L", "i">>
    [] i = 4 -> <<"J", "g">>
    [] OTHER -> <<"R", "o">>

SeedDesignation(i) ==
  CASE i = 1 -> <<"C", "E", "O">>
    [] i = 2 -> <<"C", "T", "O">>
    [] i = 3 -> <<"C", "B", "O">>
    [] i = 4 -> <<"C", "F", "O">>
    [] OTHER -> <<"V", "P">>

SeedTeam(i) ==
  CASE i = 1 -> <<"E", "x">>
    [] i = 2 -> <<"T", "e">>
    [] i = 3 -> <<"B", "u">>
    [] i = 4 -> <<"F", "i">>
    [] OTHER -> <<"T", "e">>

SeedManager(i) ==
  CASE i = 1 -> NoMgr
    [] i \in 2 .. 4 -> 1
    [] i \in 5 .. 6 -> 2
    [] i \in 7 .. 8 -> 3
    [] OTHER -> 4

Employee(i, m) ==
  [id |-> i, name |-> SeedName(i), designation |-> SeedDesignation(i),
   team |-> SeedTeam(i), managerId |-> m]

\* --------------------------------------------------- collection primitives
\* employees.find(e => e.id === id): the first record with that id.
Has(emps, id) == \E i \in DOMAIN emps : emps[i].id = id

FirstIdx(emps, id) ==
  CHOOSE i \in DOMAIN emps :
    /\ emps[i].id = id
    /\ \A j \in DOMAIN emps : emps[j].id = id => i <= j

Find(emps, id) == emps[FirstIdx(emps, id)]

IdsOf(emps) == {emps[i].id : i \in DOMAIN emps}

MgrOf(emps, id) == Find(emps, id).managerId

\* The manager relation of a collection, restricted to existing ids, and
\* its transitive closure computed independently of the code's walks:
\* a is a proper ancestor of b.
ManagersOf(emps, S) ==
  {emps[i].managerId : i \in {j \in DOMAIN emps : emps[j].id \in S}}
    \cap IdsOf(emps)

RECURSIVE ReachUp(_, _, _)
ReachUp(emps, frontier, seen) ==
  LET new == ManagersOf(emps, frontier) \ seen
  IN  IF new = {} THEN seen ELSE ReachUp(emps, new, seen \cup new)

Ancestors(emps, id) == ReachUp(emps, {id}, {})

Acyclic(emps) == \A id \in IdsOf(emps) : id \notin Ancestors(emps, id)

\* ------------------------------------------------------------------ strings
UpperChars ==
  <<"A", "B", "C", "D", "E", "F", "G", "H", "I", "J", "K", "L", "M",
    "N", "O", "P", "Q", "R", "S", "T", "U", "V", "W", "X", "Y", "Z">>

LowerChars ==
  <<"a", "b", "c", "d", "e", "f", "g", "h", "i", "j", "k", "l", "m",
    "n", "o", "p", "q", "r", "s", "t", "u", "v", "w", "x", "y", "z">>

\* String.prototype.toLowerCase, character by character.
LowerChar(c) ==
  IF \E i \in DOMAIN UpperChars : UpperChars[i] = c
  THEN LowerChars[CHOOSE i \in DOMAIN UpperChars : UpperChars[i] = c]
  ELSE c

ToLowerCase(s) == [i \in DOMAIN s |-> LowerChar(s[i])]

\* String.prototype.includes.
Includes(s, t) ==
  \E i \in 0 .. (Len(s) - Len(t)) : SubSeq(s, i + 1, i + Len(t)) = t

\* Values the user types into the search box / picks in the team dropdown.
SearchTerms == {<<>>, <<"T">>, <<"z">>}

\* teams = [...new Set(employees.map(e => e.team || ""))], plus "All Teams".
TeamOptions(emps) == {<<>>} \cup {emps[i].team : i \in DOMAIN emps}

\* ------------------------------------------------------ filteredEmployees
MatchesSearch(emp, term) ==
  \/ Includes(ToLowerCase(emp.name), ToLowerCase(term))
  \/ Includes(ToLowerCase(emp.designation), ToLowerCase(term))
  \/ Includes(ToLowerCase(emp.team), ToLowerCase(term))

\* Variant: the team filter starts from employees again and loses the
\* result of the search.
FilteredEmployeesTeamOnly(emps, term, team) ==
  LET bySearch == IF term # <<>>
                  THEN SelectSeq(emps, LAMBDA e : MatchesSearch(e, term))
                  ELSE emps
  IN  IF team # <<>>
      THEN SelectSeq(emps, LAMBDA e : e.team = team)
      ELSE bySearch

FilteredEmployees(emps, term, team) ==
  LET bySearch == IF term # <<>>
                  THEN SelectSeq(emps, LAMBDA e : MatchesSearch(e, term))
                  ELSE emps
  IN  IF team # <<>>
      THEN SelectSeq(bySearch, LAMBDA e : e.team = team)
      ELSE bySearch

\* ------------------------------------------------ calculateOrgChartLayout
\* let current = emp; while (current.managerId) { nodesToShow.add(...);
\* current = employees.find(...) || null; if (!current) break; }
\* Variant: an `if` in place of the `while`: only the direct manager is added.
WalkStepOnce(full, current, acc) ==
  IF current.managerId = NoMgr
  THEN [acc |-> acc, more |-> FALSE, current |-> current]
  ELSE [acc |-> acc \cup {current.managerId}, more |-> FALSE,
        current |-> current]

\* One evaluation of the loop condition and, when it holds, of the body:
\* the set after it, whether the loop goes round again, and the next current.
WalkStep(full, current, acc) ==
  IF current.managerId = NoMgr
  THEN [acc |-> acc, more |-> FALSE, current |-> current]
  ELSE LET added == acc \cup {current.managerId}
       IN  IF ~Has(full, current.managerId)
           THEN [acc |-> added, more |-> FALSE, current |-> current]
           ELSE [acc |-> added, more |-> TRUE,
                 current |-> Find(full, current.managerId)]

RECURSIVE WalkChain(_, _, _)
WalkChain(full, current, acc) ==
  LET step == WalkStep(full, current, acc)
  IN  IF step.more THEN WalkChain(full, step.current, step.acc) ELSE step.acc

\* filteredEmployees.forEach(emp => walk), starting from new Set(filteredIds).
RECURSIVE WalkAll(_, _, _, _)
WalkAll(full, visible, k, acc) ==
  IF k > Len(visible) THEN acc
  ELSE WalkAll(full, visible, k + 1, WalkChain(full, visible[k], acc))

NodesToShow(full, visible) == WalkAll(full, visible, 1, IdsOf(visible))

\* Variant: the filter on nodesToShow is missing.
DisplayEmployeesAll(full, shown) == full

DisplayEmployees(full, shown) == SelectSeq(full, LAMBDA e : e.id \in shown)

\* Variant: the nodes are made from nodesToShow itself (in id order).
LayoutNodesFromSet(full, shown) ==
  [i \in 1 .. Cardinality(shown) |->
     CHOOSE x \in shown : Cardinality({y \in shown : y < x}) = i - 1]

\* Variant: the manager of every displayed employee is pushed as a node of
\* its own, after the employees.
LayoutNodesRepeated(full, shown) ==
  LET disp == DisplayEmployees(full, shown)
      managed == SelectSeq(disp, LAMBDA e : e.managerId \in IdsOf(disp))
  IN  [i \in DOMAIN disp |-> disp[i].id]
        \o [i \in DOMAIN managed |-> managed[i].managerId]

LayoutNodes(full, shown) ==
  LET disp == DisplayEmployees(full, shown)
  IN  [i \in DOMAIN disp |-> disp[i].id]

\* Variant: the manager's own managerId is tested in place of the
\* employee's, and the reports of the roots get no edge.
LayoutEdgesBelowRoots(full, shown) ==
  LET disp == DisplayEmployees(full, shown)
      kept == SelectSeq(disp, LAMBDA e : /\ e.managerId # NoMgr
                                         /\ e.managerId \in shown
                                         /\ e.id \in shown
                                         /\ Has(full, e.managerId)
                                         /\ MgrOf(full, e.managerId) # NoMgr)
  IN  [i \in DOMAIN kept |-> <<kept[i].managerId, kept[i].id>>]

\* Variant: sources and targets are exchanged.
LayoutEdgesReversed(full, shown) ==
  LET disp == DisplayEmployees(full, shown)
      kept == SelectSeq(disp, LAMBDA e : /\ e.managerId # NoMgr
                                         /\ e.managerId \in shown
                                         /\ e.id \in shown)
  IN  [i \in DOMAIN kept |-> <<kept[i].id, kept[i].managerId>>]

LayoutEdges(full, shown) ==
  LET disp == DisplayEmployees(full, shown)
      kept == SelectSeq(disp, LAMBDA e : /\ e.managerId # NoMgr
                                         /\ e.managerId \in shown
                                         /\ e.id \in shown)
  IN  [i \in DOMAIN kept |-> <<kept[i].managerId, kept[i].id>>]

\* --------------------------------------------------------- isSubordinate
\* Variant: only the direct manager is compared, the recursion is missing.
isSubordinateDirect(emps, empId, potentialSubId) ==
  /\ Has(emps, potentialSubId)
  /\ Find(emps, potentialSubId).managerId # NoMgr
  /\ Find(emps, potentialSubId).managerId = empId

\* Variant: the arguments are swapped (is the dragged employee a
\* subordinate of the target).
isSubordinateSwapped(emps, empId, potentialSubId) ==
  empId \in IdsOf(emps) /\ potentialSubId \in Ancestors(emps, empId)

\* Variant: the recursive call is missing, an unequal manager answers false.
SubordinateStepDirect(emps, empId, potentialSubId) ==
  IF ~Has(emps, potentialSubId)
  THEN [returns |-> TRUE, value |-> FALSE, next |-> potentialSubId]
  ELSE LET emp == Find(emps, potentialSubId)
       IN  [returns |-> TRUE,
            value |-> emp.managerId # NoMgr /\ emp.managerId = empId,
            next |-> potentialSubId]

\* Variant: the found employee's own id is compared as well (emp.id ===
\* empId answers true).
SubordinateStepReflexive(emps, empId, potentialSubId) ==
  IF ~Has(emps, potentialSubId)
  THEN [returns |-> TRUE, value |-> FALSE, next |-> potentialSubId]
  ELSE LET emp == Find(emps, potentialSubId)
       IN  IF emp.id = empId \/ (emp.managerId # NoMgr /\ emp.managerId = empId)
           THEN [returns |-> TRUE, value |-> TRUE, next |-> potentialSubId]
           ELSE IF emp.managerId = NoMgr
           THEN [returns |-> TRUE, value |-> FALSE, next |-> potentialSubId]
           ELSE [returns |-> FALSE, value |-> FALSE, next |-> emp.managerId]

\* One activation of isSubordinate: either it returns a value, or it makes
\* the recursive call isSubordinate(empId, emp.managerId).
SubordinateStep(emps, empId, potentialSubId) ==
  IF ~Has(emps, potentialSubId)
  THEN [returns |-> TRUE, value |-> FALSE, next |-> potentialSubId]
  ELSE LET emp == Find(emps, potentialSubId)
       IN  IF emp.managerId = NoMgr
           THEN [returns |-> TRUE, value |-> FALSE, next |-> potentialSubId]
           ELSE IF emp.managerId = empId
           THEN [returns |-> TRUE, value |-> TRUE, next |-> potentialSubId]
           ELSE [returns |-> FALSE, value |-> FALSE, next |-> emp.managerId]

RECURSIVE isSubordinate(_, _, _)
isSubordinate(emps, empId, potentialSubId) ==
  LET step == SubordinateStep(emps, empId, potentialSubId)
  IN  IF step.returns THEN step.value
      ELSE isSubordinate(emps, empId, step.next)

\* Variant: the arguments of the cycle check are exchanged.
isInvalidDropSwapped(emps, draggedId, targetId) ==
  IF draggedId = NoId \/ targetId = NoId \/ draggedId = targetId THEN FALSE
  ELSE isSubordinate(emps, targetId, draggedId)

\* if (!draggedId || !targetId || draggedId === targetId) return false;
\* return isSubordinate(draggedId, targetId);
isInvalidDrop(emps, draggedId, targetId) ==
  IF draggedId = NoId \/ targetId = NoId \/ draggedId = targetId THEN FALSE
  ELSE isSubordinate(emps, draggedId, targetId)

\* ------------------------------------------------- walks that never return
\* Both walks follow managerId with no visited set.  On a chain that enters
\* a cycle the while loop of calculateOrgChartLayout never ends, and the
\* recursion of isSubordinate ends only if it meets empId on the way.
OnCycle(emps, id) == Has(emps, id) /\ id \in Ancestors(emps, id)

ChainFrom(emps, id) == IF Has(emps, id) THEN {id} \cup Ancestors(emps, id) ELSE {}

WalkHangs(full, current) ==
  \E a \in ChainFrom(full, current.managerId) : OnCycle(full, a)

ExtractionHangs(full, visible) ==
  \E k \in DOMAIN visible : WalkHangs(full, visible[k])

\* The ids met on the manager chain of id: its managerId, that manager's
\* managerId, ... (the last one may resolve to no record).
ManagerChain(emps, id) ==
  {Find(emps, a).managerId : a \in ChainFrom(emps, id)} \ {NoMgr}

SubordinateOverflows(emps, empId, potentialSubId) ==
  /\ Has(emps, potentialSubId)
  /\ empId \notin Ancestors(emps, potentialSubId)
  /\ \E a \in ChainFrom(emps, potentialSubId) : OnCycle(emps, a)

\* ------------------------------------------------------------ drag-and-drop
DraggableId(i) == i
DroppableId(i) == DropBase + i

\* Variant: the prefix is not removed.
StripDropKept(x) == x

\* over.id.toString().replace("drop-", "")
StripDrop(x) == IF x > DropBase THEN x - DropBase ELSE x

\* Variant: the mapped array is dropped and the old one kept.
SetManagerDropped(emps, draggedId, newManagerId) == emps

\* Variant: the two ids are exchanged, the target is given the dragged
\* employee as manager.
SetManagerSwapped(emps, draggedId, newManagerId) ==
  [i \in DOMAIN emps |->
     IF emps[i].id = newManagerId
     THEN [emps[i] EXCEPT !.managerId = draggedId]
     ELSE emps[i]]

\* Variant: the test of emp.id is missing, every employee gets the manager.
SetManagerAll(emps, draggedId, newManagerId) ==
  [i \in DOMAIN emps |-> [emps[i] EXCEPT !.managerId = newManagerId]]

\* prev.map(emp => emp.id === draggedId ? {...emp, managerId} : emp)
SetManager(emps, draggedId, newManagerId) ==
  [i \in DOMAIN emps |->
     IF emps[i].id = draggedId
     THEN [emps[i] EXCEPT !.managerId = newManagerId]
     ELSE emps[i]]

\* Object spread: the keys of b override those of a.
Merge(a, b) ==
  [k \in DOMAIN a \cup DOMAIN b |-> IF k \in DOMAIN b THEN b[k] ELSE a[k]]

\* The body of axios.patch: { managerId: newManagerId, ...employee }.
PatchBody(emps, draggedId, newManagerId) ==
  IF Has(emps, draggedId)
  THEN Merge([managerId |-> newManagerId], Find(emps, draggedId))
  ELSE [managerId |-> newManagerId]

\* Variant: an update for an id the table does not hold inserts a record.
ServerPatchUpsert(db, id, attrs) ==
  IF Has(db, id)
  THEN [i \in DOMAIN db |-> IF db[i].id = id THEN Merge(db[i], attrs) ELSE db[i]]
  ELSE Append(db, Merge(Employee(id, NoMgr), attrs))

\* Variant: the lookup by id is missing, every record is updated.
ServerPatchEvery(db, id, attrs) ==
  [i \in DOMAIN db |-> Merge(db[i], attrs)]

\* routes.patch: schema.find + employee.update(attrs).
ServerPatch(db, id, attrs) ==
  [i \in DOMAIN db |-> IF db[i].id = id THEN Merge(db[i], attrs) ELSE db[i]]

\* -------------------------------------------------------------------- state
\* What the handler returns: the model it updated, or null.
NullResponse == [null |-> TRUE, employee |-> Employee(NoId, NoMgr)]

RouteResponse(db, id, attrs) ==
  IF Has(db, id)
  THEN [null |-> FALSE, employee |-> Find(ServerPatch(db, id, attrs), id)]
  ELSE NullResponse

NoRequest == [id |-> NoId, attrs |-> [managerId |-> NoMgr]]

VARIABLES
  remote,        \* the mock server's employee table
  fetchState,    \* "idle" | "pending" | "done" | "failed": GET /api/employees
  employees,     \* useState<Employee[]>([])
  isLoading,     \* useState(false)
  searchTerm,    \* useState("")
  selectedTeam,  \* useState("")
  layout,        \* useState<ELKLayout | null>(null)
  overNodeId,    \* useState<string | null>(null)
  activeId,      \* useState<string | null>(null)
  patchReqs,     \* PATCH requests in flight
  layoutReqs,    \* elk.layout promises in flight
  notices,       \* notification.info / notification.error calls so far
  nPatch,        \* PATCH requests issued so far
  nLayout,       \* layout computations started so far
  alive,         \* FALSE once the page hung or a handler overflowed the stack
  nGestures,     \* drags started and filter changes made so far
  newestApplied, \* history: highest layout request number ever applied
  overlapped,    \* history: ids reparented while a PATCH for them was in flight
  patchFailed,   \* history: ids with a failed PATCH
  lastTarget,    \* history: target of the latest accepted proposal per id
  \* one call of calculateOrgChartLayout(employees, filteredEmployees):
  exFull,        \* its argument `employees`
  exVisible,     \* its argument `filteredEmployees`
  exPc,          \* "off" | "start" | "walk" | "find" | "build" | "done"
  exShown,       \* nodesToShow
  exK,           \* index of the forEach over filteredEmployees
  exCurrent,     \* `current` of the while loop
  exResult,      \* what the call hands to elk.layout, or null
  \* one call of isSubordinate(empId, potentialSubId) and its recursion:
  subEmployees,  \* the `employees` the closure reads
  subEmpId,      \* its argument `empId`
  subOfId,       \* `potentialSubId` of the outermost call
  subCurrent,    \* `potentialSubId` of the innermost call
  subDepth,      \* activations on the stack
  subPc,         \* "off" | "call" | "done" | "overflow"
  subResult,     \* the value returned
  \* the mock server's route PATCH /api/employees/:id taken alone:
  routeSchema,   \* the employee table `schema` reads and writes
  routeRequest,  \* request.params.id and the parsed request.requestBody
  routePc,       \* "off" | "idle" | "request" | "done"
  routeResponse, \* what the handler returned
  routeCount     \* requests received so far

appVars ==
  <<remote, fetchState, employees, isLoading, searchTerm, selectedTeam,
    layout, overNodeId, activeId, patchReqs, layoutReqs, notices, alive,
    nPatch, nLayout, nGestures, newestApplied, overlapped, patchFailed,
    lastTarget>>

exVars == <<exFull, exVisible, exPc, exShown, exK, exCurrent, exResult>>

subVars ==
  <<subEmployees, subEmpId, subOfId, subCurrent, subDepth, subPc, subResult>>

routeVars ==
  <<routeSchema, routeRequest, routePc, routeResponse, routeCount>>

callVars == <<exVars, subVars, routeVars>>

vars == <<appVars, callVars>>

NoLayout == [seq |-> 0, children |-> <<>>, edges |-> <<>>]

\* seeds(server): the table the mock server holds when the page loads (its
\* first NumEmp records).
CollectionOf(mgr) == [i \in Ids |-> Employee(i, mgr[i])]

SeedCollection == CollectionOf([i \in Ids |-> SeedManager(i)])

AppInit ==
  /\ remote = SeedCollection
  /\ fetchState = "idle"
  /\ employees = <<>>
  /\ isLoading = FALSE
  /\ searchTerm = <<>>
  /\ selectedTeam = <<>>
  /\ layout = NoLayout
  /\ overNodeId = NoId
  /\ activeId = NoId
  /\ patchReqs = {}
  /\ layoutReqs = {}
  /\ notices = [info |-> 0, error |-> 0]
  /\ alive = TRUE
  /\ nPatch = 0
  /\ nLayout = 0
  /\ nGestures = 0
  /\ newestApplied = 0
  /\ overlapped = {}
  /\ patchFailed = {}
  /\ lastTarget = [i \in Ids |-> NoMgr]

\* ------------------------------------------------------------ layout effect
\* useEffect(..., [filteredEmployees, employees]): runs after a render in
\* which either changed; calculateOrgChartLayout runs synchronously up to
\* `await elk.layout(...)`, so the request holds the graph extracted from
\* the collection and filter of that render.
LayoutRequest(emps, visible) ==
  LET shown == NodesToShow(emps, visible)
  IN  [seq |-> nLayout + 1,
       children |-> LayoutNodes(emps, shown),
       edges |-> LayoutEdges(emps, shown)]

\* Variant: the length test of the effect is missing.
LayoutEffectUnguarded(emps, term, team) ==
  \E visible \in {FilteredEmployees(emps, term, team)} :
    /\ nLayout' = nLayout + 1
    /\ layoutReqs' = layoutReqs \cup {LayoutRequest(emps, visible)}
    /\ UNCHANGED alive

\* Variant: the effect has an empty dependency list and never runs again.
LayoutEffectSkipped(emps, term, team) ==
  UNCHANGED <<nLayout, layoutReqs, alive>>

LayoutEffect(emps, term, team) ==
  \E visible \in {FilteredEmployees(emps, term, team)} :
    IF Len(visible) = 0
    THEN UNCHANGED <<nLayout, layoutReqs, alive>>
    ELSE IF ExtractionHangs(emps, visible)
    THEN /\ alive' = FALSE
         /\ UNCHANGED <<nLayout, layoutReqs>>
    ELSE /\ nLayout' = nLayout + 1
         /\ layoutReqs' = layoutReqs \cup {LayoutRequest(emps, visible)}
         /\ UNCHANGED alive

\* try { return await elk.layout(...) } catch { return null }: what the
\* promise of calculateOrgChartLayout resolves to.
CatchLayout(r, rejected) == IF rejected THEN NoLayout ELSE r

\* Variant: the test of graph is missing, setLayout(graph) always runs.
SetLayoutAlways(current, graph) == graph

\* if (graph) { setLayout(graph); }
SetLayoutIfGraph(current, graph) == IF graph # NoLayout THEN graph ELSE current

\* const graph = await ...; if (graph) setLayout(graph)
LayoutResolve(r) ==
  /\ alive
  /\ r \in layoutReqs
  /\ layoutReqs' = layoutReqs \ {r}
  /\ layout' = SetLayoutIfGraph(layout, CatchLayout(r, FALSE))
  /\ newestApplied' = IF r.seq > newestApplied THEN r.seq ELSE newestApplied
  /\ UNCHANGED <<remote, fetchState, employees, isLoading, searchTerm,
                 selectedTeam, overNodeId, activeId, patchReqs, notices,
                 nPatch, nLayout, nGestures, overlapped, patchFailed,
                 lastTarget>>
  /\ UNCHANGED <<alive, callVars>>

\* Variant: the failure path calls setLayout(null).
LayoutFailReset(r) ==
  /\ alive
  /\ r \in layoutReqs
  /\ layoutReqs' = layoutReqs \ {r}
  /\ layout' = NoLayout
  /\ UNCHANGED <<remote, fetchState, employees, isLoading, searchTerm,
                 selectedTeam, overNodeId, activeId, patchReqs,
                 notices, nPatch, nLayout, nGestures, newestApplied,
                 overlapped, patchFailed, lastTarget>>
  /\ UNCHANGED <<alive, callVars>>

\* elk.layout rejects: the catch returns null and setLayout is skipped.
LayoutFail(r) ==
  /\ alive
  /\ r \in layoutReqs
  /\ layoutReqs' = layoutReqs \ {r}
  /\ layout' = SetLayoutIfGraph(layout, CatchLayout(r, TRUE))
  /\ UNCHANGED <<remote, fetchState, employees, isLoading, searchTerm,
                 selectedTeam, overNodeId, activeId, patchReqs,
                 notices, nPatch, nLayout, nGestures, newestApplied,
                 overlapped, patchFailed, lastTarget>>
  /\ UNCHANGED <<alive, callVars>>

\* ------------------------------------------------------------ fetchEmployees
\* Variant: the fetch is started again after a failure.
FetchStartAgain ==
  /\ alive
  /\ fetchState \in {"idle", "failed"}
  /\ fetchState' = "pending"
  /\ isLoading' = TRUE
  /\ UNCHANGED <<remote, employees, searchTerm, selectedTeam, layout,
                 overNodeId, activeId, patchReqs, layoutReqs, notices, nPatch,
                 nLayout, nGestures, newestApplied, overlapped,
                 patchFailed, lastTarget>>
  /\ UNCHANGED <<alive, callVars>>

FetchStart ==
  /\ alive
  /\ fetchState = "idle"
  /\ fetchState' = "pending"
  /\ isLoading' = TRUE
  /\ UNCHANGED <<remote, employees, searchTerm, selectedTeam, layout,
                 overNodeId, activeId, patchReqs, layoutReqs, notices, nPatch,
                 nLayout, nGestures, newestApplied, overlapped,
                 patchFailed, lastTarget>>
  /\ UNCHANGED <<alive, callVars>>

\* What axios.get resolves to: the table the server serialises under
\* `employees`, or a body that has no such field.
Responses(db) ==
  {[present |-> TRUE, employees |-> db],
   [present |-> FALSE, employees |-> <<>>]}

\* response?.data?.employees || []
ResponseEmployees(resp) == IF resp.present THEN resp.employees ELSE <<>>

FetchSuccess(resp) ==
  /\ alive
  /\ fetchState = "pending"
  /\ fetchState' = "done"
  /\ employees' = ResponseEmployees(resp)
  /\ isLoading' = FALSE
  /\ LayoutEffect(employees', searchTerm, selectedTeam)
  /\ UNCHANGED <<remote, searchTerm, selectedTeam, layout, overNodeId,
                 activeId, patchReqs, notices, nPatch, nGestures,
                 newestApplied, overlapped, patchFailed, lastTarget>>
  /\ UNCHANGED callVars

\* Variant: setIsLoading(false) sits at the end of the try block, there is
\* no finally.
FetchFailNoFinally ==
  /\ alive
  /\ fetchState = "pending"
  /\ fetchState' = "failed"
  /\ notices' = [notices EXCEPT !.error = @ + 1]
  /\ UNCHANGED <<remote, employees, isLoading, searchTerm, selectedTeam,
                 layout, overNodeId, activeId, patchReqs, layoutReqs, nPatch,
                 nLayout, nGestures, newestApplied, overlapped, patchFailed,
                 lastTarget>>
  /\ UNCHANGED <<alive, callVars>>

FetchFail ==
  /\ alive
  /\ fetchState = "pending"
  /\ fetchState' = "failed"
  /\ notices' = [notices EXCEPT !.error = @ + 1]
  /\ isLoading' = FALSE
  /\ UNCHANGED <<remote, employees, searchTerm, selectedTeam, layout,
                 overNodeId, activeId, patchReqs, layoutReqs, nPatch, nLayout,
                 nGestures, newestApplied, overlapped, patchFailed,
                 lastTarget>>
  /\ UNCHANGED <<alive, callVars>>

\* ------------------------------------------------------------------ filters
SetSearchTerm(term) ==
  /\ alive
  /\ nGestures < MaxGestures
  /\ term # searchTerm
  /\ searchTerm' = term
  /\ nGestures' = nGestures + 1
  /\ LayoutEffect(employees, term, selectedTeam)
  /\ UNCHANGED <<remote, fetchState, employees, isLoading, selectedTeam,
                 layout, overNodeId, activeId, patchReqs, notices, nPatch,
                 newestApplied, overlapped, patchFailed, lastTarget>>
  /\ UNCHANGED callVars

SetSelectedTeam(team) ==
  /\ alive
  /\ nGestures < MaxGestures
  /\ team \in TeamOptions(employees)
  /\ team # selectedTeam
  /\ selectedTeam' = team
  /\ nGestures' = nGestures + 1
  /\ LayoutEffect(employees, searchTerm, team)
  /\ UNCHANGED <<remote, fetchState, employees, isLoading, searchTerm,
                 layout, overNodeId, activeId, patchReqs, notices, nPatch,
                 newestApplied, overlapped, patchFailed, lastTarget>>
  /\ UNCHANGED callVars

\* ------------------------------------------------------------ drag handlers
\* EmployeeNode is rendered (draggable and droppable) for each layout child
\* whose employee is found, inside the DndContext shown once loading ended.
Rendered ==
  IF isLoading THEN {}
  ELSE {layout.children[i] : i \in DOMAIN layout.children} \cap IdsOf(employees)

OverTargets == {NoId} \cup {DroppableId(i) : i \in Rendered}

handleDragStart(i) ==
  /\ alive
  /\ nGestures < MaxGestures
  /\ activeId = NoId
  /\ i \in Rendered
  /\ activeId' = DraggableId(i)
  /\ nGestures' = nGestures + 1
  /\ UNCHANGED <<remote, fetchState, employees, isLoading, searchTerm,
                 selectedTeam, layout, overNodeId, patchReqs, layoutReqs,
                 notices, nPatch, nLayout, newestApplied, overlapped,
                 patchFailed, lastTarget>>
  /\ UNCHANGED <<alive, callVars>>

\* Variant: with no target the hovered id falls back to the dragged one.
handleDragOverActive(over) ==
  /\ alive
  /\ activeId # NoId
  /\ over \in OverTargets
  /\ overNodeId' = IF over # NoId THEN StripDrop(over) ELSE activeId
  /\ UNCHANGED <<remote, fetchState, employees, isLoading, searchTerm,
                 selectedTeam, layout, activeId, patchReqs, layoutReqs,
                 notices, nPatch, nLayout, nGestures, newestApplied,
                 overlapped, patchFailed, lastTarget>>
  /\ UNCHANGED <<alive, callVars>>

handleDragOver(over) ==
  /\ alive
  /\ activeId # NoId
  /\ over \in OverTargets
  /\ overNodeId' = IF over # NoId THEN StripDrop(over) ELSE NoId
  /\ UNCHANGED <<remote, fetchState, employees, isLoading, searchTerm,
                 selectedTeam, layout, activeId, patchReqs, layoutReqs,
                 notices, nPatch, nLayout, nGestures, newestApplied,
                 overlapped, patchFailed, lastTarget>>
  /\ UNCHANGED <<alive, callVars>>

\* updateEmployeeManager(draggedId, newManagerId) up to its await: the
\* `employees` it reads is the collection of the render whose handler runs,
\* that is, the one before the setEmployees queued by handleDragEnd.
\* seq numbers the requests; prev (the managerId before the proposal) is
\* history kept for the checks, not data of the request.
PatchRequest(emps, draggedId, newManagerId) ==
  [seq |-> nPatch + 1, id |-> draggedId, target |-> newManagerId,
   prev |-> IF Has(emps, draggedId) THEN MgrOf(emps, draggedId) ELSE NoMgr,
   body |-> PatchBody(emps, draggedId, newManagerId)]

\* "rejected" outcomes of handleDragEnd, in the order the code decides them.
DragOutcome(active, over) ==
  IF over = NoId \/ active = over THEN "noTarget"
  ELSE IF active = StripDrop(over) THEN "self"
  ELSE IF SubordinateOverflows(employees, active, StripDrop(over)) THEN "throws"
  ELSE IF isSubordinate(employees, active, StripDrop(over)) THEN "cycle"
  ELSE "accepted"

handleDragEnd(over) ==
  /\ alive
  /\ activeId # NoId
  /\ over \in OverTargets
  /\ overNodeId' = NoId
  /\ activeId' = NoId
  /\ \E draggedId \in {activeId}, newManagerId \in {StripDrop(over)},
        outcome \in {DragOutcome(activeId, over)} :
         IF outcome \in {"noTarget", "self"}
         THEN UNCHANGED <<employees, patchReqs, layoutReqs, notices, nPatch,
                          nLayout, overlapped, lastTarget, alive>>
         ELSE IF outcome = "throws"
         THEN /\ alive' = FALSE
              /\ UNCHANGED <<employees, patchReqs, layoutReqs, notices, nPatch,
                             nLayout, overlapped, lastTarget>>
         ELSE IF outcome = "cycle"
         THEN /\ notices' = [notices EXCEPT !.info = @ + 1]
              /\ UNCHANGED <<employees, patchReqs, layoutReqs, nPatch,
                             nLayout, overlapped, lastTarget, alive>>
         ELSE /\ employees' = SetManager(employees, draggedId, newManagerId)
              /\ patchReqs' = patchReqs \cup
                                {PatchRequest(employees, draggedId, newManagerId)}
              /\ nPatch' = nPatch + 1
              /\ LayoutEffect(employees', searchTerm, selectedTeam)
              /\ overlapped' =
                   IF \E r \in patchReqs : r.id = draggedId
                   THEN overlapped \cup {draggedId} ELSE overlapped
              /\ lastTarget' = [lastTarget EXCEPT ![draggedId] = newManagerId]
              /\ UNCHANGED notices
  /\ UNCHANGED <<remote, fetchState, isLoading, searchTerm, selectedTeam,
                 layout, nGestures, newestApplied, patchFailed>>
  /\ UNCHANGED callVars

\* ----------------------------------------------------- PATCH /api/employees
\* Variant: the record of the response replaces the local one.
PatchSuccessSync(r) ==
  /\ alive
  /\ r \in patchReqs
  /\ patchReqs' = patchReqs \ {r}
  /\ remote' = ServerPatch(remote, r.id, r.body)
  /\ employees' = ServerPatch(employees, r.id, r.body)
  /\ UNCHANGED <<fetchState, isLoading, searchTerm, selectedTeam,
                 layout, overNodeId, activeId, layoutReqs, notices, nPatch,
                 nLayout, nGestures, newestApplied, overlapped,
                 patchFailed, lastTarget>>
  /\ UNCHANGED <<alive, callVars>>

\* The mock server handles the request and axios.patch resolves.
PatchSuccess(r) ==
  /\ alive
  /\ r \in patchReqs
  /\ patchReqs' = patchReqs \ {r}
  /\ remote' = ServerPatch(remote, r.id, r.body)
  /\ UNCHANGED <<fetchState, employees, isLoading, searchTerm, selectedTeam,
                 layout, overNodeId, activeId, layoutReqs, notices, nPatch,
                 nLayout, nGestures, newestApplied, overlapped,
                 patchFailed, lastTarget>>
  /\ UNCHANGED <<alive, callVars>>

\* Variant: the catch block only logs, notification.error is missing.
PatchFailSilent(r) ==
  /\ alive
  /\ r \in patchReqs
  /\ patchReqs' = patchReqs \ {r}
  /\ patchFailed' = patchFailed \cup {r.id}
  /\ UNCHANGED <<remote, fetchState, employees, isLoading, searchTerm,
                 selectedTeam, layout, overNodeId, activeId, layoutReqs,
                 notices, nPatch, nLayout, nGestures, newestApplied,
                 overlapped, lastTarget>>
  /\ UNCHANGED <<alive, callVars>>

\* axios.patch rejects (the request never reached the table): the catch
\* block of updateEmployeeManager runs.
PatchFail(r) ==
  /\ alive
  /\ r \in patchReqs
  /\ patchReqs' = patchReqs \ {r}
  /\ notices' = [notices EXCEPT !.error = @ + 1]
  /\ patchFailed' = patchFailed \cup {r.id}
  /\ UNCHANGED <<remote, fetchState, employees, isLoading, searchTerm,
                 selectedTeam, layout, overNodeId, activeId, layoutReqs,
                 nPatch, nLayout, nGestures, newestApplied, overlapped,
                 lastTarget>>
  /\ UNCHANGED <<alive, callVars>>

\* In the component calculateOrgChartLayout runs inside the layout effect;
\* the stand-alone call below is idle.
NoResult == [null |-> TRUE, children |-> <<>>, edges |-> <<>>]

ExOff ==
  /\ exFull = <<>>
  /\ exVisible = <<>>
  /\ exPc = "off"
  /\ exShown = {}
  /\ exK = 0
  /\ exCurrent = Employee(NoId, NoMgr)
  /\ exResult = NoResult

\* Likewise isSubordinate runs inside handleDragEnd; the stand-alone call
\* is idle.
SubOff ==
  /\ subEmployees = <<>>
  /\ subEmpId = NoId
  /\ subOfId = NoId
  /\ subCurrent = NoId
  /\ subDepth = 0
  /\ subPc = "off"
  /\ subResult = FALSE

\* The route handler runs inside the mock server; the stand-alone handler
\* is idle.
RouteOff ==
  /\ routeSchema = <<>>
  /\ routeRequest = NoRequest
  /\ routePc = "off"
  /\ routeResponse = NullResponse
  /\ routeCount = 0

Init == AppInit /\ ExOff /\ SubOff /\ RouteOff

\* ------------------------------------------------------------ specification
Next ==
  \/ FetchStart
  \/ \E resp \in Responses(remote) : FetchSuccess(resp)
  \/ FetchFail
  \/ \E term \in SearchTerms : SetSearchTerm(term)
  \/ \E team \in TeamOptions(employees) : SetSelectedTeam(team)
  \/ \E r \in layoutReqs : LayoutResolve(r)
  \/ \E r \in layoutReqs : LayoutFail(r)
  \/ \E i \in Ids : handleDragStart(i)
  \/ \E over \in OverTargets : handleDragOver(over)
  \/ \E over \in OverTargets : handleDragEnd(over)
  \/ \E r \in patchReqs : PatchSuccess(r)
  \/ \E r \in patchReqs : PatchFail(r)

Spec == Init /\ [][Next]_vars

\* The HTTP layer answers every request it was handed: each PATCH in flight
\* is resolved or rejected at some point.
PatchResolves(n) ==
  \E r \in patchReqs : r.seq = n /\ (PatchSuccess(r) \/ PatchFail(r))

\* The GET is answered or fails as well.
FetchCompletes ==
  (\E resp \in Responses(remote) : FetchSuccess(resp)) \/ FetchFail

SpecLive ==
  /\ Spec
  /\ \A n \in 1 .. MaxGestures : WF_vars(PatchResolves(n))
  /\ WF_vars(FetchStart)
  /\ WF_vars(FetchCompletes)

\* --------------------------------- calculateOrgChartLayout, statement by
\* statement, on arbitrary arguments: every id of Ids has one record, whose
\* managerId is null, an id of the collection (cycles included) or an id
\* that no record has; the visible employees are any of its records.
ExtraIds == (NumEmp + 1) .. (NumEmp + MaxExtraIds)

FullCollections ==
  {CollectionOf(mgr) : mgr \in [Ids -> {NoMgr} \cup Ids \cup ExtraIds]}

InitExtract ==
  /\ AppInit
  /\ exFull \in FullCollections
  /\ \E S \in SUBSET Ids :
       exVisible = SelectSeq(exFull, LAMBDA e : e.id \in S)
  /\ exPc = "start"
  /\ exShown = {}
  /\ exK = 0
  /\ exCurrent = Employee(NoId, NoMgr)
  /\ exResult = NoResult
  /\ SubOff
  /\ RouteOff

\* if (filteredEmployees.length === 0) return null; ... new Set(filteredIds)
ExStart ==
  /\ exPc = "start"
  /\ IF Len(exVisible) = 0
     THEN /\ exPc' = "done"
          /\ UNCHANGED <<exShown, exK, exCurrent>>
     ELSE /\ exPc' = "walk"
          /\ exShown' = IdsOf(exVisible)
          /\ exK' = 1
          /\ exCurrent' = exVisible[1]
  /\ UNCHANGED <<exFull, exVisible, exResult>>
  /\ UNCHANGED <<appVars, subVars, routeVars>>

\* Variant: the walk is made for the first visible employee only.
ExForEachFirst ==
  /\ exPc' = "build"
  /\ UNCHANGED <<exK, exCurrent>>

\* The while loop of one visible employee has ended: the forEach moves on.
ExForEachNext ==
  IF exK < Len(exVisible)
  THEN /\ exK' = exK + 1
       /\ exCurrent' = exVisible[exK + 1]
       /\ exPc' = "walk"
  ELSE /\ exPc' = "build"
       /\ UNCHANGED <<exK, exCurrent>>

\* while (current.managerId) { nodesToShow.add(current.managerId); ...
ExWalk ==
  /\ exPc = "walk"
  /\ IF exCurrent.managerId = NoMgr
     THEN /\ ExForEachNext
          /\ UNCHANGED exShown
     ELSE /\ exShown' = WalkStep(exFull, exCurrent, exShown).acc
          /\ exPc' = "find"
          /\ UNCHANGED <<exK, exCurrent>>
  /\ UNCHANGED <<exFull, exVisible, exResult>>
  /\ UNCHANGED <<appVars, subVars, routeVars>>

\* ... current = employees.find(...) || null; if (!current) break; }
ExFind ==
  /\ exPc = "find"
  /\ IF WalkStep(exFull, exCurrent, exShown).more
     THEN /\ exCurrent' = WalkStep(exFull, exCurrent, exShown).current
          /\ exPc' = "walk"
          /\ UNCHANGED exK
     ELSE ExForEachNext
  /\ UNCHANGED <<exFull, exVisible, exShown, exResult>>
  /\ UNCHANGED <<appVars, subVars, routeVars>>

\* Variant: the visible employees are taken off their array while the
\* graph is built.
ExBuildConsuming ==
  /\ exPc = "build"
  /\ exPc' = "done"
  /\ exVisible' = <<>>
  /\ exResult' = [null |-> FALSE,
                  children |-> LayoutNodes(exFull, exShown),
                  edges |-> LayoutEdges(exFull, exShown)]
  /\ UNCHANGED <<exFull, exShown, exK, exCurrent>>
  /\ UNCHANGED <<appVars, subVars, routeVars>>

\* displayEmployees, nodes and edges: the graph passed to elk.layout.
ExBuild ==
  /\ exPc = "build"
  /\ exPc' = "done"
  /\ exResult' = [null |-> FALSE,
                  children |-> LayoutNodes(exFull, exShown),
                  edges |-> LayoutEdges(exFull, exShown)]
  /\ UNCHANGED <<exFull, exVisible, exShown, exK, exCurrent>>
  /\ UNCHANGED <<appVars, subVars, routeVars>>

NextExtract == ExStart \/ ExWalk \/ ExFind \/ ExBuild

SpecExtract == InitExtract /\ [][NextExtract]_vars

\* The call is a synchronous loop: once entered it keeps running.
SpecExtractLive == SpecExtract /\ WF_vars(NextExtract)

\* The same call on arguments in any order and of any relation to each
\* other: the full collection holds the records of some of the ids, in any
\* order; the visible employees are records of any ids, in any order, so
\* that a visible employee may be absent from the full collection and a
\* managerId may name an absent employee.
AnyOrder(S) ==
  {seq \in [1 .. Cardinality(S) -> S] :
     \A i, j \in 1 .. Cardinality(S) : seq[i] = seq[j] => i = j}

RecordsOf(order, mgr) == [i \in DOMAIN order |-> Employee(order[i], mgr[order[i]])]

InitExtractAny ==
  /\ AppInit
  /\ \E mgr \in [Ids -> {NoMgr} \cup Ids] :
       \E P \in SUBSET Ids, S \in SUBSET Ids :
         /\ exFull \in {RecordsOf(order, mgr) : order \in AnyOrder(P)}
         /\ exVisible \in {RecordsOf(order, mgr) : order \in AnyOrder(S)}
  /\ exPc = "start"
  /\ exShown = {}
  /\ exK = 0
  /\ exCurrent = Employee(NoId, NoMgr)
  /\ exResult = NoResult
  /\ SubOff
  /\ RouteOff

SpecExtractAny == InitExtractAny /\ [][NextExtract]_vars

\* --------------------------------- isSubordinate, activation by activation,
\* on arbitrary arguments: any collection of FullCollections, and for empId
\* and potentialSubId any id of the collection or id that no record has.
QueryIds == Ids \cup ExtraIds

InitSub ==
  /\ AppInit
  /\ ExOff
  /\ RouteOff
  /\ subEmployees \in FullCollections
  /\ subEmpId \in QueryIds
  /\ subOfId \in QueryIds
  /\ subCurrent = subOfId
  /\ subDepth = 1
  /\ subPc = "call"
  /\ subResult = FALSE

\* return isSubordinate(empId, emp.managerId): a new activation on the
\* stack; when the stack is full the call throws a RangeError instead.
SubRecurse ==
  /\ subPc = "call"
  /\ ~SubordinateStep(subEmployees, subEmpId, subCurrent).returns
  /\ IF subDepth < MaxStack
     THEN /\ subCurrent' = SubordinateStep(subEmployees, subEmpId, subCurrent).next
          /\ subDepth' = subDepth + 1
          /\ UNCHANGED subPc
     ELSE /\ subPc' = "overflow"
          /\ UNCHANGED <<subCurrent, subDepth>>
  /\ UNCHANGED <<subEmployees, subEmpId, subOfId, subResult>>
  /\ UNCHANGED <<appVars, exVars, routeVars>>

\* return false / return true: the value goes back through every caller.
SubReturn ==
  /\ subPc = "call"
  /\ SubordinateStep(subEmployees, subEmpId, subCurrent).returns
  /\ subResult' = SubordinateStep(subEmployees, subEmpId, subCurrent).value
  /\ subPc' = "done"
  /\ UNCHANGED <<subEmployees, subEmpId, subOfId, subCurrent, subDepth>>
  /\ UNCHANGED <<appVars, exVars, routeVars>>

NextSub == SubRecurse \/ SubReturn

SpecSub == InitSub /\ [][NextSub]_vars

\* --------------------------------- the component, or one stand-alone call
\* of calculateOrgChartLayout (as the unit tests make it).
\* The route PATCH /api/employees/:id over any table and any request: the
\* id is that of a record or of none, the body is the bare
\* { managerId } or a whole employee record with that id.
RequestBodies(id) ==
  {[managerId |-> m] : m \in {NoMgr} \cup QueryIds}
    \cup (IF id \in Ids THEN {Employee(id, m) : m \in {NoMgr} \cup QueryIds} ELSE {})

InitRoute ==
  /\ AppInit
  /\ ExOff
  /\ SubOff
  /\ routeSchema \in FullCollections
  /\ routeRequest = NoRequest
  /\ routePc = "idle"
  /\ routeResponse = NullResponse
  /\ routeCount = 0

\* A request reaches the route.
RouteReceive ==
  /\ routePc \in {"idle", "done"}
  /\ routeCount < MaxRequests
  /\ \E id \in QueryIds : \E attrs \in RequestBodies(id) :
       routeRequest' = [id |-> id, attrs |-> attrs]
  /\ routePc' = "request"
  /\ routeCount' = routeCount + 1
  /\ UNCHANGED <<routeSchema, routeResponse>>
  /\ UNCHANGED <<appVars, exVars, subVars>>

\* The handler: schema.find, employee.update(attrs), return.
RoutePatch ==
  /\ routePc = "request"
  /\ routeSchema' = ServerPatch(routeSchema, routeRequest.id, routeRequest.attrs)
  /\ routeResponse' = RouteResponse(routeSchema, routeRequest.id, routeRequest.attrs)
  /\ routePc' = "done"
  /\ UNCHANGED <<routeRequest, routeCount>>
  /\ UNCHANGED <<appVars, exVars, subVars>>

NextRoute == RouteReceive \/ RoutePatch

SpecRoute == InitRoute /\ [][NextRoute]_vars

InitAll == Init \/ InitExtract

NextAll == (exPc = "off" /\ Next) \/ NextExtract

SpecAll == InitAll /\ [][NextAll]_vars

\* ==================================================================== claims
InFlightFor(d) == {r \in patchReqs : r.id = d}

\* What a rejected proposal must leave alone.
NoMutationNoRequest ==
  /\ employees' = employees
  /\ patchReqs' = patchReqs
  /\ nPatch' = nPatch
  /\ remote' = remote

\* C1: starting from the acyclic seed table, the manager relation of the
\* local collection is acyclic in every reachable state: no employee is its
\* own ancestor, whatever proposals were accepted or rejected and whatever
\* PATCH requests succeeded or failed.
C1_LocalAcyclic == Acyclic(employees)

\* A reparent was accepted, its PATCH resolved, and a cycle was refused.
C1_Witness ==
  /\ nPatch >= 1
  /\ patchReqs = {}
  /\ notices.info >= 1
  /\ employees # remote \/ patchFailed # {}

\* C2: a proposal whose dragged employee is an ancestor of the target is
\* rejected: one informational notice, the collection unchanged, no PATCH.
C2_CycleRejected ==
  [][\A t \in Ids :
       (handleDragEnd(DroppableId(t)) /\ activeId \in Ancestors(employees, t))
         => /\ NoMutationNoRequest
            /\ notices' = [notices EXCEPT !.info = @ + 1]]_vars

\* A drop on a descendant two levels down was refused.
C2_Witness ==
  /\ notices.info >= 1
  /\ activeId = NoId
  /\ \E i \in IdsOf(employees) : Cardinality(Ancestors(employees, i)) >= 2

\* C3: a proposal on a present target that is not the dragged employee and
\* not one of its descendants is accepted: in the state right after the
\* handler the dragged employee's local managerId is the target, and exactly
\* one new PATCH request, for that employee, is in flight.
C3_AcceptedOptimistic ==
  [][\A t \in Ids :
       (/\ handleDragEnd(DroppableId(t))
        /\ Has(employees, t)
        /\ t # activeId
        /\ activeId \notin Ancestors(employees, t))
         => /\ MgrOf(employees', activeId) = t
            /\ patchReqs \subseteq patchReqs'
            /\ Cardinality(patchReqs' \ patchReqs) = 1
            /\ \A r \in patchReqs' \ patchReqs : r.id = activeId
            /\ nPatch' = nPatch + 1]_vars

\* The local managerId is already the target while the PATCH is in flight
\* and the server still holds the old managerId.
C3_Witness ==
  \E r \in patchReqs :
    /\ MgrOf(employees, r.id) = r.target
    /\ MgrOf(remote, r.id) # r.target

\* C4: every PATCH request carries managerId equal to the target of its
\* proposal.
C4_RequestCarriesTarget ==
  \A r \in patchReqs : r.body.managerId = r.target

\* C5: when a PATCH fails, an error notice is emitted and the employee's
\* local managerId goes back to its value before the proposal.
C5_FailureReverts ==
  [][\A r \in patchReqs :
       PatchFail(r)
         => /\ notices'.error = notices.error + 1
            /\ MgrOf(employees', r.id) = r.prev]_vars

\* C6: with no PATCH in flight, every employee's local managerId is the one
\* the server holds.
C6_LocalEqualsRemote ==
  patchReqs = {} =>
    \A i \in DOMAIN employees :
      MgrOf(remote, employees[i].id) = employees[i].managerId

\* C7: when an employee was reparented again while a PATCH for it was in
\* flight and all its requests have succeeded, the server holds the target
\* of the later proposal.
C7_LastWriteWins ==
  \A d \in overlapped :
    (InFlightFor(d) = {} /\ d \notin patchFailed)
      => MgrOf(remote, d) = lastTarget[d]

\* C8: the layout in place is never the result of a computation started
\* before one whose result has already been applied.
C8_NoStaleLayout == layout.seq = newestApplied

\* C9: a drag end with no drop target, and a drop of an employee on itself,
\* are rejected without a notice, whatever the cycle check would say: the
\* collection is unchanged and no PATCH is issued.
C9_NoTargetAndSelfRejected ==
  [][\A over \in {NoId, DroppableId(activeId)} :
       handleDragEnd(over)
         => /\ NoMutationNoRequest
            /\ notices' = notices]_vars

\* The one gesture made was a drag, it has ended, and it left no trace: no
\* PATCH, no notice.
C9_Witness ==
  /\ nGestures = 1
  /\ searchTerm = <<>> /\ selectedTeam = <<>>
  /\ layout # NoLayout
  /\ activeId = NoId
  /\ nPatch = 0
  /\ notices = [info |-> 0, error |-> 0]

\* C10: ancestor closure.  For a non-empty visible subset, every node of
\* the extracted graph whose managerId resolves in the full collection has
\* its manager among the nodes.
ExNodes == {exResult.children[i] : i \in DOMAIN exResult.children}

C10_AncestorClosure ==
  (exPc = "done" /\ ~exResult.null) =>
    \A e \in ExNodes :
      Has(exFull, MgrOf(exFull, e)) => MgrOf(exFull, e) \in ExNodes

\* A node that is not visible was added for a visible employee, and its own
\* manager, not visible either, was added as well.
C10_Witness ==
  /\ exPc = "done"
  /\ \E e \in ExNodes \ IdsOf(exVisible) :
       /\ Has(exFull, MgrOf(exFull, e))
       /\ MgrOf(exFull, e) \in ExNodes \ IdsOf(exVisible)

ExEdges == {exResult.edges[i] : i \in DOMAIN exResult.edges}

\* C11: edge soundness.  Every edge (m, e) of the extracted graph has m and
\* e among the extracted nodes, and e's managerId in the full collection is
\* m; full collections with managerIds that resolve to no employee included.
C11_EdgeSound ==
  (exPc = "done" /\ ~exResult.null) =>
    \A edge \in ExEdges :
      /\ edge[1] \in ExNodes
      /\ edge[2] \in ExNodes
      /\ MgrOf(exFull, edge[2]) = edge[1]

\* C12: edge completeness.  For every employee of the full collection whose
\* id and managerId are both extracted nodes, the extracted edges contain
\* the edge managerId -> id exactly once, also when the manager is not
\* visible itself.
C12_EdgeComplete ==
  (exPc = "done" /\ ~exResult.null) =>
    \A i \in DOMAIN exFull :
      (exFull[i].id \in ExNodes /\ exFull[i].managerId \in ExNodes)
        => Cardinality({j \in DOMAIN exResult.edges :
                          exResult.edges[j] =
                            <<exFull[i].managerId, exFull[i].id>>}) = 1

\* An edge leaves a manager that the filter did not select.
C12_Witness ==
  /\ exPc = "done"
  /\ \E edge \in ExEdges :
       edge[1] \notin IdsOf(exVisible) /\ edge[2] \in IdsOf(exVisible)

\* C13: the extracted nodes are exactly the visible employees and their
\* ancestors in the full collection.
C13_NodesExact ==
  (exPc = "done" /\ ~exResult.null) =>
    ExNodes = IdsOf(exVisible)
                \cup UNION {Ancestors(exFull, v) : v \in IdsOf(exVisible)}

\* The graph holds a visible employee and an ancestor that is not visible,
\* and leaves out an employee that is neither.
C13_Witness ==
  /\ exPc = "done"
  /\ ExNodes \ IdsOf(exVisible) # {}
  /\ IdsOf(exFull) \ ExNodes # {}

\* C14: with an empty visible subset calculateOrgChartLayout returns null
\* whatever the full collection is, and no step of the component that ends
\* with an empty visible subset starts a layout computation.
C14_EmptyVisibleNoLayout ==
  /\ []((exPc = "done" /\ Len(exVisible) = 0) => exResult.null)
  /\ [][Len(FilteredEmployees(employees', searchTerm', selectedTeam')) = 0
          => (layoutReqs' \subseteq layoutReqs /\ nLayout' = nLayout)]_vars

\* The call returned null for a non-empty full collection of which nothing
\* is visible.
C14_Witness ==
  /\ exPc = "done"
  /\ Len(exVisible) = 0
  /\ Len(exFull) > 0
  /\ exResult.null

\* C15: the ancestor-chain walk of calculateOrgChartLayout ends for every
\* full collection and visible subset, cyclic manager relations included.
C15_WalkTerminates == <>(exPc = "done")

\* C16: on an acyclic collection isSubordinate(candidateId, ofId) is true
\* exactly when candidateId is met on ofId's manager chain, and false when
\* the chain ends at a root or at an id that resolves to no employee first.
C16_AncestorQuery ==
  (subPc = "done" /\ Acyclic(subEmployees)) =>
    (subResult <=> subEmpId \in ManagerChain(subEmployees, subOfId))

\* The query answered true for a manager that is not the direct one.
C16_Witness ==
  /\ subPc = "done"
  /\ Acyclic(subEmployees)
  /\ subResult
  /\ subCurrent # subOfId

\* C17: isSubordinate returns for every collection and never exhausts the
\* stack: on a manager chain that enters a cycle without the candidate it
\* answers false.
C17_QueryTerminates ==
  /\ subPc # "overflow"
  /\ (/\ subPc = "done"
      /\ subEmpId \notin ManagerChain(subEmployees, subOfId)
      /\ \E a \in ChainFrom(subEmployees, subOfId) : OnCycle(subEmployees, a))
       => ~subResult

\* C18: on an acyclic collection the ancestor query is a strict order:
\* irreflexive, asymmetric and transitive.
C18_StrictOrder ==
  (subPc = "done" /\ Acyclic(subEmployees)) =>
    /\ \A x \in QueryIds : ~isSubordinate(subEmployees, x, x)
    /\ \A a, c \in QueryIds :
         ~(isSubordinate(subEmployees, a, c) /\ isSubordinate(subEmployees, c, a))
    /\ \A a, b, c \in QueryIds :
         (isSubordinate(subEmployees, a, b) /\ isSubordinate(subEmployees, b, c))
           => isSubordinate(subEmployees, a, c)

\* The query that ran is a transitive case: the candidate is an ancestor of
\* an employee b which is an ancestor of the queried one.
C18_Witness ==
  /\ subPc = "done"
  /\ Acyclic(subEmployees)
  /\ subResult
  /\ \E b \in QueryIds :
       /\ isSubordinate(subEmployees, subEmpId, b)
       /\ isSubordinate(subEmployees, b, subOfId)

\* C19: after an accepted reparent of d from its manager m to a different
\* target t, the graph extracted from the updated collection, when d, m and
\* t are among its nodes, has the edge t -> d and not the edge m -> d.
C19_ReparentEdges ==
  [][\A t \in Ids :
       (/\ handleDragEnd(DroppableId(t))
        /\ nPatch' = nPatch + 1
        /\ MgrOf(employees, activeId) # t)
         => \A r \in layoutReqs' \ layoutReqs :
              LET nodes == {r.children[i] : i \in DOMAIN r.children}
                  edges == {r.edges[i] : i \in DOMAIN r.edges}
                  d == activeId
                  m == MgrOf(employees, activeId)
              IN  {d, m, t} \subseteq nodes
                    => (<<t, d>> \in edges /\ <<m, d>> \notin edges)]_vars

\* The newest layout request links a reparented employee to its target,
\* with its first manager still among the nodes.
C19_Witness ==
  \E r \in layoutReqs, d \in Ids :
    /\ r.seq = nLayout
    /\ lastTarget[d] # NoMgr
    /\ lastTarget[d] # SeedManager(d)
    /\ \E i \in DOMAIN r.edges : r.edges[i] = <<lastTarget[d], d>>
    /\ \E i \in DOMAIN r.children : r.children[i] = SeedManager(d)

\* C20: every step that changes the employee collection, the search term
\* or the selected team and ends with a non-empty visible subset starts one
\* layout computation on the graph extracted from the collection and the
\* visible subset of the state it ends in.
C20_ChangeTriggersLayout ==
  [][(/\ \/ employees' # employees
          \/ searchTerm' # searchTerm
          \/ selectedTeam' # selectedTeam
      /\ Len(FilteredEmployees(employees', searchTerm', selectedTeam')) > 0)
       => /\ nLayout' = nLayout + 1
          /\ Cardinality(layoutReqs' \ layoutReqs) = 1
          /\ \A r \in layoutReqs' \ layoutReqs :
               LET shown == NodesToShow(employees',
                              FilteredEmployees(employees', searchTerm',
                                                selectedTeam'))
               IN  /\ r.children = LayoutNodes(employees', shown)
                   /\ r.edges = LayoutEdges(employees', shown)]_vars

\* A search that keeps some employees and hides others started the newest
\* layout computation, on the smaller graph.
C20_Witness ==
  /\ searchTerm # <<>>
  /\ \E r \in layoutReqs :
       /\ r.seq = nLayout
       /\ nLayout >= 2
       /\ Len(r.children) > 0
       /\ Len(r.children) < Len(employees)

\* C21: when elk.layout fails, calculateOrgChartLayout resolves to null,
\* and the component goes on with the collection and the layout it had: no
\* crash, no notice, nothing applied.
C21_LayoutFailureIsNull ==
  [][\A r \in layoutReqs :
       LayoutFail(r)
         => /\ CatchLayout(r, TRUE) = NoLayout
            /\ layout' = layout
            /\ employees' = employees
            /\ alive'
            /\ notices' = notices
            /\ r \notin layoutReqs']_vars

\* The newest layout computation failed while an earlier layout is shown.
C21_Witness ==
  /\ layout # NoLayout
  /\ newestApplied < nLayout
  /\ \A r \in layoutReqs : r.seq # nLayout

\* C22: when the initial fetch fails the collection stays empty, exactly
\* one error notice has been emitted, and no fetch is started again.
C22_FetchFailureNoRetry ==
  /\ [](fetchState = "failed"
          => /\ employees = <<>>
             /\ notices.error = 1
             /\ ~isLoading)
  /\ [][fetchState = "failed" => fetchState' = "failed"]_vars

\* The fetch failed and the user went on to use the (empty) page.
C22_Witness ==
  /\ fetchState = "failed"
  /\ nGestures >= 1

\* C23: every PATCH issued is resolved or rejected at some point; a request
\* leaves the set of requests in flight only by its own completion; a
\* rejected request emits one error notice, a resolved one none.
C23_RequestsRunToCompletion ==
  /\ \A n \in 1 .. MaxGestures :
       (\E r \in patchReqs : r.seq = n) ~> ~(\E r \in patchReqs : r.seq = n)
  /\ [][\A r \in patchReqs :
          /\ r \notin patchReqs' => (PatchSuccess(r) \/ PatchFail(r))
          /\ PatchFail(r) => notices' = [notices EXCEPT !.error = @ + 1]
          /\ PatchSuccess(r) => notices' = notices]_vars

\* Two requests were issued; one was rejected and one resolved.
C23_Witness ==
  /\ nPatch = 2
  /\ patchReqs = {}
  /\ fetchState = "done"
  /\ notices.error = 1

\* What the completion of request r does to the server's table.
PatchEffect(db, r, ok) == IF ok THEN ServerPatch(db, r.id, r.body) ELSE db

\* C24: requests for two distinct employees are in flight together, and
\* their completions commute: in either order the server's table ends the
\* same, and no completion touches the local collection.
C24_DistinctRequestsCommute ==
  /\ [](\A r1, r2 \in patchReqs : \A ok1, ok2 \in BOOLEAN :
          r1.id # r2.id =>
            PatchEffect(PatchEffect(remote, r1, ok1), r2, ok2)
              = PatchEffect(PatchEffect(remote, r2, ok2), r1, ok1))
  /\ [][\A r \in patchReqs :
          (PatchSuccess(r) \/ PatchFail(r))
            => /\ employees' = employees
               /\ remote' \in {PatchEffect(remote, r, ok) : ok \in BOOLEAN}]_vars

\* Requests for two distinct employees are in flight at the same time.
C24_Witness ==
  \E r1, r2 \in patchReqs : r1.id # r2.id

\* C25: the node list of the extracted graph holds no id twice, also when
\* visible employees share a part of their manager chain.
C25_NoDuplicateNodes ==
  (exPc = "done" /\ ~exResult.null) =>
    \A i, j \in DOMAIN exResult.children :
      exResult.children[i] = exResult.children[j] => i = j

\* Two visible employees have the same manager, who is not visible and is
\* a node.
C25_Witness ==
  /\ exPc = "done"
  /\ \E v1, v2 \in IdsOf(exVisible) :
       /\ v1 # v2
       /\ MgrOf(exFull, v1) = MgrOf(exFull, v2)
       /\ MgrOf(exFull, v1) \in ExNodes \ IdsOf(exVisible)

\* C26: a call of calculateOrgChartLayout leaves both its arguments as they
\* were, and a second evaluation on them gives the same nodes and edges as
\* the call that has just returned.
C26_ExtractionRepeatable ==
  /\ [][exFull' = exFull /\ exVisible' = exVisible]_vars
  /\ []((exPc = "done" /\ ~exResult.null) =>
          LET shown == NodesToShow(exFull, exVisible)
              again == LayoutNodes(exFull, shown)
              edges == LayoutEdges(exFull, shown)
          IN  /\ {again[i] : i \in DOMAIN again} = ExNodes
              /\ {edges[i] : i \in DOMAIN edges} = ExEdges)

\* A call returned a graph with at least two edges.
C26_Witness ==
  /\ exPc = "done"
  /\ ~exResult.null
  /\ Cardinality(ExEdges) >= 2

\* s contains t when the case of the letters is ignored.
ContainsIgnoringCase(s, t) ==
  \E i \in 0 .. (Len(s) - Len(t)) :
    \A j \in 1 .. Len(t) : LowerChar(s[i + j]) = LowerChar(t[j])

\* C27: the visible employees are employees of the collection; they are
\* the whole collection when the search term and the team are empty, and
\* when both are set they are exactly the employees whose name, designation
\* or team contains the term and whose team is the selected one.
C27_VisibleSubset ==
  LET visible == FilteredEmployees(employees, searchTerm, selectedTeam)
      Elems(seq) == {seq[i] : i \in DOMAIN seq}
  IN  /\ Elems(visible) \subseteq Elems(employees)
      /\ Len(visible) <= Len(employees)
      /\ (searchTerm = <<>> /\ selectedTeam = <<>>) => visible = employees
      /\ (searchTerm # <<>> /\ selectedTeam # <<>>) =>
           Elems(visible) =
             {e \in Elems(employees) :
                /\ \/ ContainsIgnoringCase(e.name, searchTerm)
                   \/ ContainsIgnoringCase(e.designation, searchTerm)
                   \/ ContainsIgnoringCase(e.team, searchTerm)
                /\ e.team = selectedTeam}

\* A search term and a team are set, an employee matches the term, and the
\* team filter leaves nobody.
C27_Witness ==
  /\ searchTerm # <<>>
  /\ selectedTeam # <<>>
  /\ Len(FilteredEmployees(employees, searchTerm, <<>>)) > 0
  /\ Len(FilteredEmployees(employees, searchTerm, selectedTeam)) = 0

\* C28: the managerId of an employee of the local collection changes only
\* in an accepted proposal for that employee; filter changes, drag start,
\* drag over, rejected proposals, layout completions and PATCH successes
\* leave the collection as it is.
C28_OnlyReparentMutates ==
  [][/\ \A i \in Ids :
          (/\ Has(employees, i) /\ Has(employees', i)
           /\ MgrOf(employees', i) # MgrOf(employees, i))
            => /\ activeId = i
               /\ nPatch' = nPatch + 1
               /\ \E t \in Ids : /\ handleDragEnd(DroppableId(t))
                                  /\ MgrOf(employees', i) = t
     /\ (\/ \E term \in SearchTerms : SetSearchTerm(term)
         \/ \E team \in TeamOptions(employees) : SetSelectedTeam(team)
         \/ \E i \in Ids : handleDragStart(i)
         \/ \E over \in OverTargets : handleDragOver(over)
         \/ \E over \in OverTargets :
              handleDragEnd(over) /\ nPatch' = nPatch
         \/ \E r \in layoutReqs : LayoutResolve(r) \/ LayoutFail(r)
         \/ \E r \in patchReqs : PatchSuccess(r))
          => employees' = employees]_vars

\* A reparent was accepted and its PATCH succeeded, a cycle was refused and
\* a later layout was applied: the collection differs from the fetched one
\* in one managerId.
C28_Witness ==
  /\ nPatch = 1
  /\ patchReqs = {}
  /\ patchFailed = {}
  /\ notices.info = 1
  /\ layout.seq >= 2
  /\ employees # SeedCollection

\* C29: isInvalidDrop(d, t) is true exactly when a drop of d on t in the
\* same state is rejected as a cycle; it is false when d is null, t is null
\* or d is t.
C29_InvalidDropAgrees ==
  \A d, t \in {NoId} \cup Ids :
    /\ isInvalidDrop(employees, d, t)
         <=> (d # NoId /\ t # NoId /\ DragOutcome(d, DroppableId(t)) = "cycle")
    /\ (d = NoId \/ t = NoId \/ d = t) => ~isInvalidDrop(employees, d, t)

\* The dragged employee is held over one of its subordinates, which is
\* shown as an invalid target.
C29_Witness ==
  /\ activeId # NoId
  /\ overNodeId # NoId
  /\ isInvalidDrop(employees, activeId, overNodeId)

\* C30: an accepted reparent of d changes d's managerId and nothing else:
\* the same records in the same places, every other record as before, and
\* d's id, name, designation and team as before.
C30_ReparentFrame ==
  [][\A t \in Ids :
       (handleDragEnd(DroppableId(t)) /\ nPatch' = nPatch + 1)
         => /\ DOMAIN employees' = DOMAIN employees
            /\ \A i \in DOMAIN employees :
                 IF employees[i].id = activeId
                 THEN employees'[i] = [employees[i] EXCEPT !.managerId = t]
                 ELSE employees'[i] = employees[i]]_vars

\* One reparent was accepted: that employee has a new manager, the records
\* of the others are the fetched ones.
C30_Witness ==
  /\ nPatch = 1
  /\ \E d \in Ids :
       /\ lastTarget[d] # NoMgr
       /\ lastTarget[d] # SeedManager(d)
       /\ MgrOf(employees, d) = lastTarget[d]
       /\ \A i \in Ids \ {d} : Find(employees, i) = Find(SeedCollection, i)

\* C33: once a layout has been applied the layout shown is never null
\* again, whatever fails and whatever the filters leave visible.
C33_LayoutNeverReset == [][layout # NoLayout => layout' # NoLayout]_vars

\* A layout is shown although the filters leave no employee visible.
C33_Witness ==
  /\ layout # NoLayout
  /\ employees # <<>>
  /\ Len(FilteredEmployees(employees, searchTerm, selectedTeam)) = 0

\* C34: isLoading is true exactly while the initial fetch is pending, the
\* fetch ends and isLoading is false from then on, and a successful fetch
\* makes the collection the records of the response, or the empty
\* collection when the response has none.
C34_LoadingFlag ==
  /\ [](isLoading <=> fetchState = "pending")
  /\ <>[](~isLoading /\ fetchState \in {"done", "failed"})
  /\ [][\A resp \in Responses(remote) :
          FetchSuccess(resp)
            => employees' = IF resp.present THEN remote ELSE <<>>]_vars

\* The fetch succeeded with a response that carried no records.
C34_Witness ==
  /\ fetchState = "done"
  /\ ~isLoading
  /\ employees = <<>>

\* C35: every drag end leaves activeId and overNodeId null, whatever its
\* outcome, and a drag over with no target sets overNodeId to null.
C35_DragStateCleared ==
  [][/\ \A over \in OverTargets :
          handleDragEnd(over) => (activeId' = NoId /\ overNodeId' = NoId)
     /\ handleDragOver(NoId) => overNodeId' = NoId]_vars

\* Two drags have ended, one accepted and one refused as a cycle, and
\* nothing is dragged or hovered.
C35_Witness ==
  /\ nGestures = 2
  /\ nPatch = 1
  /\ notices.info = 1
  /\ activeId = NoId
  /\ overNodeId = NoId

\* C31: on an acyclic collection in which every managerId that is set
\* resolves, the extracted graph has one edge for each node that has a
\* manager, and no node is the target of two edges.
C31_EdgeCount ==
  (/\ exPc = "done" /\ ~exResult.null
   /\ Acyclic(exFull)
   /\ \A i \in DOMAIN exFull :
        exFull[i].managerId = NoMgr \/ Has(exFull, exFull[i].managerId))
    => /\ Len(exResult.edges) =
            Len(exResult.children)
              - Cardinality({n \in ExNodes : MgrOf(exFull, n) = NoMgr})
       /\ \A n \in ExNodes :
            Cardinality({j \in DOMAIN exResult.edges :
                           exResult.edges[j][2] = n}) <= 1

\* A graph of a well-formed collection with a root, two edges and a node
\* left out.
C31_Witness ==
  /\ exPc = "done" /\ ~exResult.null
  /\ Acyclic(exFull)
  /\ \A i \in DOMAIN exFull :
       exFull[i].managerId = NoMgr \/ Has(exFull, exFull[i].managerId)
  /\ Len(exResult.edges) = 1
  /\ Len(exResult.children) = 2
  /\ Len(exFull) > 2

\* The records of a sequence in the order of their ids.
SortById(seq) ==
  [i \in 1 .. Len(seq) |->
     Find(seq, CHOOSE x \in IdsOf(seq) :
                 Cardinality({y \in IdsOf(seq) : y < x}) = i - 1)]

\* C32: the nodes and edges of the extracted graph, as sets, do not depend
\* on the order of the full collection nor on the order of the visible
\* employees: they are those of the call on the arguments sorted by id.
C32_OrderIndependent ==
  (exPc = "done" /\ ~exResult.null /\ ~ExtractionHangs(exFull, exVisible)) =>
    LET full == SortById(exFull)
        shown == NodesToShow(full, SortById(exVisible))
        nodes == LayoutNodes(full, shown)
        edges == LayoutEdges(full, shown)
    IN  /\ {nodes[i] : i \in DOMAIN nodes} = ExNodes
        /\ {edges[i] : i \in DOMAIN edges} = ExEdges

\* The call returned a graph with an edge for arguments that are both out
\* of id order.
C32_Witness ==
  /\ exPc = "done"
  /\ ExEdges # {}
  /\ \E i, j \in DOMAIN exFull : i < j /\ exFull[i].id > exFull[j].id
  /\ \E i, j \in DOMAIN exVisible : i < j /\ exVisible[i].id > exVisible[j].id

\* C36: every node of the graph handed to elk.layout is the id of an
\* employee of the full collection; a managerId that resolves to nobody
\* and a visible employee missing from the full collection are not nodes.
C36_NodesAreEmployees ==
  (exPc = "done" /\ ~exResult.null) => ExNodes \subseteq IdsOf(exFull)

\* The call returned a graph although one visible employee is not in the
\* full collection and another one's manager is not.
C36_Witness ==
  /\ exPc = "done"
  /\ ExNodes # {}
  /\ IdsOf(exVisible) \ IdsOf(exFull) # {}
  /\ \E i \in DOMAIN exVisible :
       /\ Has(exFull, exVisible[i].id)
       /\ exVisible[i].managerId # NoMgr
       /\ ~Has(exFull, exVisible[i].managerId)

\* C37: in the route PATCH /api/employees/:id, an update for an id the table
\* holds changes that record only, sets the attributes of the request on
\* it, keeps its other attributes and returns it; an update for an id the
\* table does not hold changes no record and returns null.
C37_SinkFrame ==
  [][RoutePatch =>
       IF Has(routeSchema, routeRequest.id)
       THEN /\ Len(routeSchema') = Len(routeSchema)
            /\ \A i \in DOMAIN routeSchema :
                 IF routeSchema[i].id = routeRequest.id
                 THEN /\ DOMAIN routeSchema'[i] = DOMAIN routeSchema[i]
                      /\ \A k \in DOMAIN routeSchema[i] :
                           routeSchema'[i][k] =
                             IF k \in DOMAIN routeRequest.attrs
                             THEN routeRequest.attrs[k]
                             ELSE routeSchema[i][k]
                      /\ ~routeResponse'.null
                      /\ routeResponse'.employee = routeSchema'[i]
                 ELSE routeSchema'[i] = routeSchema[i]
       ELSE /\ routeSchema' = routeSchema
            /\ routeResponse' = NullResponse]_vars

\* After an earlier request, an update carrying only a managerId has been
\* applied to a record of the table and that record returned.
C37_Witness ==
  /\ routePc = "done"
  /\ routeCount = MaxRequests
  /\ ~routeResponse.null
  /\ DOMAIN routeRequest.attrs = {"managerId"}
  /\ routeResponse.employee.id = routeRequest.id
  /\ routeResponse.employee.managerId = routeRequest.attrs.managerId
  /\ routeResponse.employee \in {routeSchema[i] : i \in DOMAIN routeSchema}

====
